---- MODULE Spec2Model ----
(***************************************************************************)
(* A model of craam::GRMDP (src/include/RMDP.hpp): the id-indexed table of *)
(* states and the evaluation routines built on it for a fixed policy pair. *)
(*                                                                         *)
(* State ids are 0-based as in the code; the table is a TLA+ sequence, so  *)
(* state id s lives at position s + 1.  Values of type prec_t are doubles  *)
(* (IEEE 754 binary64), computed with the rounding of the hardware.        *)
(***************************************************************************)
EXTENDS Integers, Sequences, FiniteSets, TLC

VARIABLES
    states,     \* GRMDP::states, the vector<SType>
    build,      \* what the build fixes: assertions and library checks on or
                \* off (NDEBUG), and the choices the design leaves open
    call,       \* the last operation invoked and its arguments
    old,        \* the table as it was when that operation was invoked
    result,     \* what that operation returned
    sweep,      \* the parallel sweep in progress ("idle" when none)
    wpc,        \* per worker (state id): its position in the loop body
    wt,         \* per worker: its local Transition t
    out,        \* the sweep's output container (*result / rewards)
    wrote,      \* per output cell: the workers that have written it
    resolved    \* the state ids whose policy[s], nature[s] the call passed
                \* to the state (mean_transition, mean_reward,
                \* is_action_outcome_correct)

vars == <<states, build, call, old, result, sweep, wpc, wt, out, wrote,
          resolved>>

----------------------------------------------------------------------------
\* Bounds of the model

\* longest table Init draws
MaxInitStates == 2
\* largest id handed to create_state / get_state
MaxStateId == 2

----------------------------------------------------------------------------
\* prec_t is double: IEEE 754 binary64, every operation rounded to nearest,
\* ties to even.  A value is a record [c, s, m, e]:
\*   c = "num": the number (-1)^s * m * 2^e, m an odd natural number held
\*              as its digits in base 2^15, least significant first (zero:
\*              m = <<>>, e = 0; the sign of a zero is kept);
\*   c = "inf": the infinity of sign s;   c = "nan": not a number.

\* digits of the natural numbers are in base 2^LimbBits
LimbBits == 15
LimbBase == 32768
\* binary64: 53 significant bits, exponents of the lowest and highest bit
SigBits == 53
MinExp == -1074
MaxExp == 1023
\* digits that hold a significand: 4 * 15 >= 53
SigLimbs == 4

Abs(x) == IF x < 0 THEN -x ELSE x
MaxInt(a, b) == IF a >= b THEN a ELSE b
MinInt(a, b) == IF a <= b THEN a ELSE b
\* the digits f[1], ..., f[n] of a function f on 1..n, as a sequence
Digits(f) == <<>> \o f

\* a sequence of digits less its zero digits at the high end
BTrim(a) ==
    SubSeq(a, 1, CHOOSE n \in 0..Len(a) :
                     /\ n = 0 \/ a[n] # 0
                     /\ \A j \in (n + 1)..Len(a) : a[j] = 0)

\* natural numbers of any size: sequences of digits, no leading zero digit
BNorm(f) == BTrim(Digits(f))

BLimb(a, i) == IF 1 <= i /\ i <= Len(a) THEN a[i] ELSE 0

\* is there a carry into digit i of a + b: some digit below overflows and
\* every digit between passes the carry on
BCarry(a, b, i) ==
    \E j \in 1..(i - 1) :
        /\ BLimb(a, j) + BLimb(b, j) >= LimbBase
        /\ \A k \in (j + 1)..(i - 1) : BLimb(a, k) + BLimb(b, k) = LimbBase - 1

\* a + b, for sequences of digits a, b
BAdd(a, b) ==
    BNorm([i \in 1..(MaxInt(Len(a), Len(b)) + 1) |->
        (BLimb(a, i) + BLimb(b, i) + (IF BCarry(a, b, i) THEN 1 ELSE 0))
            % LimbBase])

\* is there a borrow from digit i of a - b
BBorrow(a, b, i) ==
    \E j \in 1..(i - 1) :
        /\ BLimb(a, j) < BLimb(b, j)
        /\ \A k \in (j + 1)..(i - 1) : BLimb(a, k) = BLimb(b, k)

\* a - b for a >= b
BSub(a, b) ==
    BNorm([i \in 1..Len(a) |->
        (LimbBase + a[i] - BLimb(b, i) - (IF BBorrow(a, b, i) THEN 1 ELSE 0))
            % LimbBase])

\* -1, 0, 1 as a < b, a = b, a > b
BCmp(a, b) ==
    IF Len(a) # Len(b) THEN (IF Len(a) < Len(b) THEN -1 ELSE 1)
    ELSE IF a = b THEN 0
    ELSE LET i == CHOOSE n \in 1..Len(a) :
                      a[n] # b[n] /\ \A j \in (n + 1)..Len(a) : a[j] = b[j]
         IN  IF a[i] < b[i] THEN -1 ELSE 1

\* a * LimbBase^n
BShiftLimbs(a, n) == IF a = <<>> THEN <<>> ELSE [i \in 1..n |-> 0] \o a

\* a * k for 0 <= k <= LimbBase: the low digits of the products of the
\* digits, plus their high digits one place up
BMulSmall(a, k) ==
    BAdd(Digits([i \in 1..Len(a) |-> (a[i] * k) % LimbBase]),
         <<0>> \o [i \in 1..Len(a) |-> (a[i] * k) \div LimbBase])

\* a * digit i of b, in its place
BMulTerm(a, b, i) ==
    IF BLimb(b, i) = 0 THEN <<>>
    ELSE BShiftLimbs(BMulSmall(a, b[i]), i - 1)

\* a * b for b of at most SigLimbs digits
BMul(a, b) ==
    BAdd(BAdd(BMulTerm(a, b, 1), BMulTerm(a, b, 2)),
         BAdd(BMulTerm(a, b, 3), BMulTerm(a, b, 4)))

\* a * 2^k
BShl(a, k) ==
    BShiftLimbs(BMulSmall(a, 2 ^ (k % LimbBits)), k \div LimbBits)

\* a \div 2^k
BShr(a, k) ==
    BNorm([i \in 1..(Len(a) - (k \div LimbBits)) |->
        (a[i + (k \div LimbBits)] \div (2 ^ (k % LimbBits)))
        + (BLimb(a, i + (k \div LimbBits) + 1) % (2 ^ (k % LimbBits)))
            * (2 ^ (LimbBits - (k % LimbBits)))])

\* the number of bits of a digit
BitLenSmall(x) ==
    CHOOSE n \in 0..LimbBits : x < 2 ^ n /\ (n = 0 \/ 2 ^ (n - 1) <= x)

\* the number of bits of a
BBitLen(a) ==
    IF a = <<>> THEN 0
    ELSE LimbBits * (Len(a) - 1) + BitLenSmall(a[Len(a)])

\* the number of zero bits at the low end of a digit x # 0
TrailingZerosSmall(x) ==
    CHOOSE n \in 0..(LimbBits - 1) : x % (2 ^ (n + 1)) # 0 /\ x % (2 ^ n) = 0

\* the number of zero bits at the low end of a # 0
BTrailingZeros(a) ==
    LET j == CHOOSE n \in 1..Len(a) : a[n] # 0 /\ \A k \in 1..(n - 1) : a[k] = 0
    IN  LimbBits * (j - 1) + TrailingZerosSmall(a[j])

BIsOdd(a) == a # <<>> /\ a[1] % 2 = 1

\* bit i of a (bit 0 is the lowest)
BBit(a, i) == (BLimb(a, i \div LimbBits + 1) \div (2 ^ (i % LimbBits))) % 2

\* the largest digit d with d * b <= r, for r < b * LimbBase and b of top
\* digit LimbBase / 2 or more: d is at most the top two digits of r divided
\* by the top digit of b, and at least that less 2
BDigit(r, b) ==
    LET est == MinInt(LimbBase - 1,
                      (BLimb(r, Len(b) + 1) * LimbBase + BLimb(r, Len(b)))
                          \div b[Len(b)])
    IN  IF BCmp(BMulSmall(b, est), r) <= 0 THEN est
        ELSE IF BCmp(BMulSmall(b, est - 1), r) <= 0 THEN est - 1
        ELSE est - 2

\* long division: n more digits of the quotient q, from the remainder r < b
RECURSIVE BDivSteps(_, _, _, _)
BDivSteps(q, r, b, n) ==
    IF n = 0 THEN <<q, r>>
    ELSE IF r = <<>> THEN <<BShiftLimbs(q, n), r>>
    ELSE LET rr == BShiftLimbs(r, 1)
             d == BDigit(rr, b)
         IN  BDivSteps(<<d>> \o q, BSub(rr, BMulSmall(b, d)), b, n - 1)

\* <<q, r>>: the quotient and the remainder of a * LimbBase^n divided by b,
\* for a < 2 * b and b of top digit LimbBase / 2 or more
BDivMod(a, b, n) ==
    IF BCmp(a, b) >= 0 THEN BDivSteps(<<1>>, BSub(a, b), b, n)
    ELSE BDivSteps(<<>>, a, b, n)

\* the natural number k < 2^31 as digits
BFromInt(k) ==
    BNorm(<<k % LimbBase, (k \div LimbBase) % LimbBase,
            k \div (LimbBase * LimbBase)>>)

Num(s, m, e) == [c |-> "num", s |-> s, m |-> m, e |-> e]
Zero(s) == Num(s, <<>>, 0)
Inf(s) == [c |-> "inf", s |-> s, m |-> <<>>, e |-> 0]
NaN == [c |-> "nan", s |-> 0, m |-> <<>>, e |-> 0]
IsZero(x) == x.c = "num" /\ x.m = <<>>
IsNaN(x) == x.c = "nan"
Xor(s, t) == (s + t) % 2

\* the double (-1)^s * n * 2^e for n of at most 53 bits, or the infinity
\* when that is beyond the largest double
Canon(s, n, e) ==
    IF n = <<>> THEN Zero(s)
    ELSE IF BBitLen(n) + e - 1 > MaxExp THEN Inf(s)
    ELSE Num(s, BShr(n, BTrailingZeros(n)), e + BTrailingZeros(n))

\* the bits of n from bit k up, plus one when the bits below bit k are more
\* than half of 2^k, or are half of it and there is more beyond them
\* (sticky) or the bits from bit k up are odd
RoundAt(n, k, sticky) ==
    IF /\ BBit(n, k - 1) = 1
       /\ (BTrailingZeros(n) < k - 1 \/ sticky \/ BBit(n, k) = 1)
    THEN BAdd(BShr(n, k), <<1>>)
    ELSE BShr(n, k)

\* the double nearest to (-1)^s * (n + f) * 2^e, ties to even, where n # 0
\* and f is 0, or some fraction strictly between 0 and 1 when sticky
Round(s, n, e, sticky) ==
    IF MaxInt(BBitLen(n) - SigBits, MinExp - e) <= 0 THEN Canon(s, n, e)
    ELSE Canon(s, RoundAt(n, MaxInt(BBitLen(n) - SigBits, MinExp - e), sticky),
               e + MaxInt(BBitLen(n) - SigBits, MinExp - e))

RZero == Zero(0)
ROne == Num(0, <<1>>, 0)
RInt(k) == IF k = 0 THEN RZero ELSE Canon(IF k < 0 THEN 1 ELSE 0, BFromInt(Abs(k)), 0)

RNeg(a) == IF IsNaN(a) THEN a ELSE [a EXCEPT !.s = 1 - a.s]
RAbs(a) == [a EXCEPT !.s = 0]

\* the top of a number: one more than the exponent of its highest bit
Top(a) == a.e + BBitLen(a.m)

\* a + b for numbers a, b # 0 where b lies below every bit that the
\* rounding of a looks at: b only says on which side of a the sum is
AddTiny(a, b) ==
    IF a.s = b.s
    THEN Round(a.s, BShl(a.m, SigBits + 2 - BBitLen(a.m)),
               a.e - (SigBits + 2 - BBitLen(a.m)), TRUE)
    ELSE Round(a.s, BSub(BShl(a.m, SigBits + 2 - BBitLen(a.m)), <<1>>),
               a.e - (SigBits + 2 - BBitLen(a.m)), TRUE)

\* x * 2^e + y * 2^e with the signs s and t, for x, y # 0
AddAligned(s, x, t, y, e) ==
    IF s = t THEN Round(s, BAdd(x, y), e, FALSE)
    ELSE IF BCmp(x, y) = 0 THEN Zero(0)
    ELSE IF BCmp(x, y) > 0 THEN Round(s, BSub(x, y), e, FALSE)
    ELSE Round(t, BSub(y, x), e, FALSE)

\* a + b
RAdd(a, b) ==
    IF IsNaN(a) \/ IsNaN(b) THEN NaN
    ELSE IF a.c = "inf" THEN (IF b.c = "inf" /\ b.s # a.s THEN NaN ELSE a)
    ELSE IF b.c = "inf" THEN b
    ELSE IF IsZero(a) /\ IsZero(b) THEN Zero(IF a.s = 1 /\ b.s = 1 THEN 1 ELSE 0)
    ELSE IF IsZero(a) THEN b
    ELSE IF IsZero(b) THEN a
    ELSE IF Top(b) <= Top(a) - SigBits - 2 THEN AddTiny(a, b)
    ELSE IF Top(a) <= Top(b) - SigBits - 2 THEN AddTiny(b, a)
    ELSE AddAligned(a.s, BShl(a.m, a.e - MinInt(a.e, b.e)),
                    b.s, BShl(b.m, b.e - MinInt(a.e, b.e)), MinInt(a.e, b.e))

\* a - b
RSub(a, b) == RAdd(a, RNeg(b))

\* a * b
RMul(a, b) ==
    IF IsNaN(a) \/ IsNaN(b) THEN NaN
    ELSE IF a.c = "inf" \/ b.c = "inf"
         THEN (IF IsZero(a) \/ IsZero(b) THEN NaN ELSE Inf(Xor(a.s, b.s)))
    ELSE IF IsZero(a) \/ IsZero(b) THEN Zero(Xor(a.s, b.s))
    ELSE Round(Xor(a.s, b.s), BMul(a.m, b.m), a.e + b.e, FALSE)

\* the quotient of the numbers x * 2^d and y * 2^e with the sign s, for x
\* and y of SigLimbs full digits: SigLimbs more digits are divided out
DivAligned(s, x, d, y, e) ==
    LET qr == BDivMod(x, y, SigLimbs)
    IN  Round(s, qr[1], d - e - SigLimbs * LimbBits, qr[2] # <<>>)

\* a / b
RDiv(a, b) ==
    IF IsNaN(a) \/ IsNaN(b) THEN NaN
    ELSE IF a.c = "inf" THEN (IF b.c = "inf" THEN NaN ELSE Inf(Xor(a.s, b.s)))
    ELSE IF b.c = "inf" THEN Zero(Xor(a.s, b.s))
    ELSE IF IsZero(b) THEN (IF IsZero(a) THEN NaN ELSE Inf(Xor(a.s, b.s)))
    ELSE IF IsZero(a) THEN Zero(Xor(a.s, b.s))
    ELSE DivAligned(Xor(a.s, b.s),
             BShl(a.m, SigLimbs * LimbBits - BBitLen(a.m)),
             a.e - (SigLimbs * LimbBits - BBitLen(a.m)),
             BShl(b.m, SigLimbs * LimbBits - BBitLen(b.m)),
             b.e - (SigLimbs * LimbBits - BBitLen(b.m)))

\* a == b
REq(a, b) == ~IsNaN(a) /\ ~IsNaN(b) /\ (a = b \/ (IsZero(a) /\ IsZero(b)))

\* a < b
RLess(a, b) ==
    /\ ~IsNaN(RSub(b, a))
    /\ ~IsZero(RSub(b, a))
    /\ RSub(b, a).s = 0

\* the double n / d of two integers
Rat(n, d) == RDiv(RInt(n), RInt(d))

\* the sum of a sequence, accumulated from 0.0 in the order of the entries
RECURSIVE RSumSeq(_)
RSumSeq(q) ==
    IF q = <<>> THEN RZero
    ELSE RAdd(RSumSeq(SubSeq(q, 1, Len(q) - 1)), q[Len(q)])

----------------------------------------------------------------------------
\* Transition: parallel collections of target ids, probabilities and rewards

Tr(ix, pr, rw) == [indices |-> ix, probabilities |-> pr, rewards |-> rw]

\* Transition(): no entries
EmptyTransition == Tr(<<>>, <<>>, <<>>)

Single(i, p, r) == Tr(<<i>>, <<p>>, <<r>>)
Pair(i1, p1, r1, i2, p2, r2) == Tr(<<i1, i2>>, <<p1, p2>>, <<r1, r2>>)

\* Transition::size
TSize(t) == Len(t.indices)

\* Transition::sum_probabilities
sum_probabilities(t) == RSumSeq(t.probabilities)

\* Transition::mean_reward: the sum of probability * reward over the entries
\* 1..j, accumulated from 0.0 in the order of the entries
RECURSIVE MeanRewardUpTo(_, _)
MeanRewardUpTo(t, j) ==
    IF j = 0 THEN RZero
    ELSE RAdd(MeanRewardUpTo(t, j - 1), RMul(t.probabilities[j], t.rewards[j]))

TransitionMeanReward(t) == MeanRewardUpTo(t, TSize(t))

\* Transition::is_normalized: the probabilities sum to 1.  The tables drawn
\* hold weights whose sums and whose quotients by their sum are doubles
\* (1 and 3, 1/2 and 1/2, 1, 0), so every sum compared here is exact and a
\* comparison that allowed for rounding would answer the same
TransitionIsNormalized(t) == REq(sum_probabilities(t), ROne)

\* Transition::normalize for a non-zero total weight: the probabilities are
\* rescaled to sum to 1, each taken as its share of the total.  What the
\* rescaling leaves where no doubles hold the shares is not said and no such
\* table is drawn
TransitionNormalize(t) ==
    LET sp == sum_probabilities(t)
    IN  [t EXCEPT !.probabilities =
            [j \in 1..TSize(t) |-> RDiv(t.probabilities[j], sp)]]

\* Transition::probabilities_vector(n): the dense expansion, ids 0..n-1
probabilities_vector(t, n) ==
    [i \in 0..(n - 1) |->
        IF \E j \in 1..TSize(t) : t.indices[j] = i
        THEN t.probabilities[CHOOSE j \in 1..TSize(t) : t.indices[j] = i]
        ELSE RZero]

----------------------------------------------------------------------------
\* State: a sequence of actions; Action: a sequence of outcomes (Transitions)

\* SType(): the default state, no actions
DefaultState == <<>>

\* State::is_terminal
is_terminal(st) == Len(st) = 0

\* State::is_action_outcome_correct
is_action_outcome_correct(st, aid, oid) ==
    /\ aid >= 0
    /\ aid < Len(st)
    /\ oid >= 0
    /\ oid < Len(st[aid + 1])

\* State::mean_transition on a non-terminal state with a correct pair
mean_transition(st, aid, oid) == st[aid + 1][oid + 1]

\* State::mean_reward on a non-terminal state with a correct pair
mean_reward(st, aid, oid) == TransitionMeanReward(st[aid + 1][oid + 1])

----------------------------------------------------------------------------
\* The state table

\* GRMDP::state_count
state_count(tab) == Len(tab)

\* the state ids of a table
StateIds(tab) == 0..(Len(tab) - 1)

\* vector::resize(k): keeps the first k states, default-constructs the rest
Resize(tab, k) ==
    [i \in 1..k |-> IF i <= Len(tab) THEN tab[i] ELSE DefaultState]

\* create_state with the comparison off by one: stateid > states.size()
create_state_late(tab, stateid) ==
    IF stateid > Len(tab) THEN Resize(tab, stateid + 1) ELSE tab

\* GRMDP::create_state(stateid): the table after the call (a negative
\* stateid is below states.size() and resizes nothing)
create_state(tab, stateid) ==
    IF stateid >= Len(tab) THEN Resize(tab, stateid + 1) ELSE tab

\* the assertion of create_state letting -1 through
create_state_assert_loose(tab, stateid) == stateid >= -1

\* the assertion of GRMDP::create_state
create_state_assert(tab, stateid) == stateid >= 0

\* the assertion of GRMDP::get_state (both overloads)
get_state_assert(tab, stateid) == stateid >= 0 /\ stateid < state_count(tab)

\* GRMDP::get_state(stateid): the reference states[stateid], as the id and
\* the state it refers to; outside the table it refers to no state
get_state(tab, stateid) ==
    [ref |-> stateid,
     state |-> IF stateid >= 0 /\ stateid < state_count(tab)
               THEN <<tab[stateid + 1]>> ELSE <<>>]

\* the outcome positions <<s, a, o>> (1-based) of a table
Positions(tab) ==
    UNION {UNION {{<<s, a, o>> : o \in 1..Len(tab[s][a])} : a \in 1..Len(tab[s])} :
           s \in 1..Len(tab)}

\* GRMDP::is_normalized
is_normalized(tab) ==
    \A s \in 1..Len(tab) : \A a \in 1..Len(tab[s]) : \A o \in 1..Len(tab[s][a]) :
        TransitionIsNormalized(tab[s][a][o])

ZeroWeight(t) == REq(sum_probabilities(t), RZero)

\* the order in which normalize visits the outcomes
Before(p, q) ==
    \/ p[1] < q[1]
    \/ p[1] = q[1] /\ p[2] < q[2]
    \/ p[1] = q[1] /\ p[2] = q[2] /\ p[3] < q[3]

ZeroPositions(tab) == {p \in Positions(tab) : ZeroWeight(tab[p[1]][p[2]][p[3]])}

\* does normalize stop before reaching position p
StopsBefore(tab, zp, p) ==
    /\ zp = "fail"
    /\ \E z \in ZeroPositions(tab) : Before(z, p)

\* normalize with a loop that stops one state early
normalize_short(tab, zp) ==
    [s \in 1..Len(tab) |->
        [a \in 1..Len(tab[s]) |->
            [o \in 1..Len(tab[s][a]) |->
                IF s = Len(tab) \/ ZeroWeight(tab[s][a][o])
                   \/ StopsBefore(tab, zp, <<s, a, o>>)
                THEN tab[s][a][o]
                ELSE TransitionNormalize(tab[s][a][o])]]]

\* GRMDP::normalize: every outcome visited is rescaled; an outcome of total
\* weight zero is left as it is (zp = "skip") or ends the call with an error
\* (zp = "fail"), the outcomes already visited staying rescaled
normalize(tab, zp) ==
    [s \in 1..Len(tab) |->
        [a \in 1..Len(tab[s]) |->
            [o \in 1..Len(tab[s][a]) |->
                IF ZeroWeight(tab[s][a][o]) \/ StopsBefore(tab, zp, <<s, a, o>>)
                THEN tab[s][a][o]
                ELSE TransitionNormalize(tab[s][a][o])]]]

\* does normalize end with an error
normalize_fails(tab, zp) == zp = "fail" /\ ZeroPositions(tab) # {}

\* is_policy_correct without the skip of terminal states
RECURSIVE PolicyScanAll(_, _, _, _)
PolicyScanAll(tab, policy, natpolicy, si) ==
    IF si >= Len(tab) THEN -1
    ELSE IF ~is_action_outcome_correct(tab[si + 1], policy[si + 1], natpolicy[si + 1])
         THEN si
         ELSE PolicyScanAll(tab, policy, natpolicy, si + 1)

\* GRMDP::is_policy_correct: scan from state id si
RECURSIVE PolicyScan(_, _, _, _)
PolicyScan(tab, policy, natpolicy, si) ==
    IF si >= Len(tab) THEN -1
    ELSE IF is_terminal(tab[si + 1])
         THEN PolicyScan(tab, policy, natpolicy, si + 1)
         ELSE IF ~is_action_outcome_correct(tab[si + 1], policy[si + 1], natpolicy[si + 1])
              THEN si
              ELSE PolicyScan(tab, policy, natpolicy, si + 1)

is_policy_correct(tab, policy, natpolicy) == PolicyScan(tab, policy, natpolicy, 0)

----------------------------------------------------------------------------
\* Dense matrices and vectors (ublas), indexed by state ids 0..n-1

Cells(n) == (0..(n - 1)) \X (0..(n - 1))

\* a matrix or vector as stored: its elements are computed once, when it is
\* assigned, and read afterwards
Stored(f) == IF f = f THEN f ELSE f

\* ublas::zero_matrix(n, n)
ZeroMatrix(n) == [c \in Cells(n) |-> RZero]

\* the vector of n zeros
ZeroVector(n) == [i \in 0..(n - 1) |-> RZero]

\* ublas::identity_matrix(n)
IdentityMatrix(n) == [c \in Cells(n) |-> IF c[1] = c[2] THEN ROne ELSE RZero]

\* sum of row i of an n x n matrix, columns j..n-1
RECURSIVE RowSumFrom(_, _, _, _)
RowSumFrom(m, n, i, j) ==
    IF j >= n THEN RZero ELSE RAdd(m[<<i, j>>], RowSumFrom(m, n, i, j + 1))

RowSum(m, n, i) == RowSumFrom(m, n, i, 0)

\* What a call of mean_transition on a terminal state may do.  The call is
\* undefined, so nothing ties one call to the next: each call, in each
\* iteration, takes one of these on its own.  The program ends (in the call,
\* or in a write outside the matrix of what the call handed back); or the
\* call hands back no entries; or it hands back an entry that belongs to no
\* outcome of the state, its target any state of the n there are.
Crash == [kind |-> "crash", t |-> EmptyTransition]
Value(t) == [kind |-> "value", t |-> t]
UndefinedResolves(n) ==
    {Crash, Value(EmptyTransition)}
        \cup {Value(Single(i, Rat(1, 2), RZero)) : i \in 0..(n - 1)}

\* the cell that iteration s of transition_mat writes for entry j of t:
\* (*result)(s, indexes[j])
ForwardCell(s, t, j) == <<s, t.indices[j]>>

\* the cell of transition_mat_t with the subscripts in the forward order
TransposedCellSwapped(s, t, j) == <<s, t.indices[j]>>

\* the cell that iteration s of transition_mat_t writes for entry j of t:
\* (*result)(indexes[j], s)
TransposedCell(s, t, j) == <<t.indices[j], s>>

\* the inner loop of transition_mat for state s, entries j.. of t
RECURSIVE WriteRow(_, _, _, _)
WriteRow(m, s, t, j) ==
    IF j > TSize(t) THEN m
    ELSE WriteRow([m EXCEPT ![ForwardCell(s, t, j)] = t.probabilities[j]], s, t, j + 1)

\* the inner loop of transition_mat_t for state s, entries j.. of t
RECURSIVE WriteColumn(_, _, _, _)
WriteColumn(m, s, t, j) ==
    IF j > TSize(t) THEN m
    ELSE WriteColumn([m EXCEPT ![TransposedCell(s, t, j)] = t.probabilities[j]], s, t, j + 1)

\* the Transition that iteration s of transition_mat resolves; undef[s] is
\* what the undefined call on the terminal state s does in this call
ForwardResolve(tab, policy, nature, undef, s) ==
    IF is_terminal(tab[s + 1]) THEN undef[s].t
    ELSE mean_transition(tab[s + 1], policy[s + 1], nature[s + 1])

\* does iteration s of transition_mat_t write anything (terminal: continue)
TransposedWrites(tab, s) == ~is_terminal(tab[s + 1])

RECURSIVE ForwardLoop(_, _, _, _, _, _)
ForwardLoop(m, tab, policy, nature, undef, s) ==
    IF s >= Len(tab) THEN m
    ELSE ForwardLoop(
            WriteRow(m, s, ForwardResolve(tab, policy, nature, undef, s), 1),
            tab, policy, nature, undef, s + 1)

TerminalIds(tab) == {s \in StateIds(tab) : is_terminal(tab[s + 1])}

\* GRMDP::transition_mat: the matrix returned, when the call returns
transition_mat(tab, policy, nature, undef) ==
    ForwardLoop(ZeroMatrix(Len(tab)), tab, policy, nature, undef, 0)

\* does transition_mat end the program instead of returning
transition_mat_crashes(tab, undef) ==
    \E s \in TerminalIds(tab) : undef[s].kind = "crash"

\* what the undefined calls of one transition_mat call may do, one choice
\* per terminal state
UndefinedCalls(tab) == [TerminalIds(tab) -> UndefinedResolves(Len(tab))]

RECURSIVE TransposedLoop(_, _, _, _, _)
TransposedLoop(m, tab, policy, nature, s) ==
    IF s >= Len(tab) THEN m
    ELSE TransposedLoop(
            IF TransposedWrites(tab, s)
            THEN WriteColumn(m, s,
                    mean_transition(tab[s + 1], policy[s + 1], nature[s + 1]), 1)
            ELSE m,
            tab, policy, nature, s + 1)

\* GRMDP::transition_mat_t
transition_mat_t(tab, policy, nature) ==
    TransposedLoop(ZeroMatrix(Len(tab)), tab, policy, nature, 0)

\* the slot that iteration s of rewards_state writes: rewards[s]
RewardCell(s) == s

\* the loop body of rewards_state taking outcome 0 whatever nature chose
RewardEntryOutcome0(tab, policy, nature, s) ==
    IF is_terminal(tab[s + 1]) THEN RZero
    ELSE mean_reward(tab[s + 1], policy[s + 1], 0)

\* the loop body of rewards_state for state s
RewardEntry(tab, policy, nature, s) ==
    IF is_terminal(tab[s + 1]) THEN RZero
    ELSE mean_reward(tab[s + 1], policy[s + 1], nature[s + 1])

\* GRMDP::rewards_state
rewards_state(tab, policy, nature) ==
    [s \in StateIds(tab) |-> RewardEntry(tab, policy, nature, s)]

----------------------------------------------------------------------------
\* The direct solve of ofreq_mat (ublas lu_factorize / lu_substitute)

SwapRows(m, n, i, k) ==
    [c \in Cells(n) |->
        IF c[1] = i THEN m[<<k, c[2]>>]
        ELSE IF c[1] = k THEN m[<<i, c[2]>>]
        ELSE m[c]]

\* index_norm_inf over rows l..n-1 of column i: best is the row of the
\* largest magnitude t seen so far; only a strictly larger one replaces it
RECURSIVE IndexNormInf(_, _, _, _, _, _)
IndexNormInf(m, n, i, l, best, t) ==
    IF l >= n THEN best
    ELSE IF RLess(t, RAbs(m[<<l, i>>]))
         THEN IndexNormInf(m, n, i, l + 1, l, RAbs(m[<<l, i>>]))
         ELSE IndexNormInf(m, n, i, l + 1, best, t)

\* the first row at or below i holding the largest magnitude of column i
PivotRow(m, n, i) == IndexNormInf(m, n, i, i, i, RZero)

\* the steps of lu_factorize on column i once row k is found to hold a
\* non-zero pivot: the permutation notes k, rows i and k are swapped when
\* they differ, and the column below the pivot is multiplied by 1 / pivot
ScaleColumn(f, n, i, k) ==
    LET m1 == IF k # i THEN Stored(SwapRows(f.m, n, i, k)) ELSE f.m
        inv == RDiv(ROne, m1[<<i, i>>])
    IN  [m |-> Stored([c \in Cells(n) |->
                  IF c[2] = i /\ c[1] > i THEN RMul(m1[c], inv) ELSE m1[c]]),
         pm |-> [f.pm EXCEPT ![i] = k],
         singular |-> f.singular]

\* the step of lu_factorize on a column i without a pivot: the first such
\* column is noted, as i + 1
NoteSingular(f, i) ==
    [f EXCEPT !.singular = IF f.singular = 0 THEN i + 1 ELSE f.singular]

\* the last step of lu_factorize on column i: the outer product of the
\* column below the pivot and the row right of it is taken off the rest
Eliminate(f, n, i) ==
    [f EXCEPT !.m = Stored([c \in Cells(n) |->
        IF c[1] > i /\ c[2] > i
        THEN RSub(f.m[c], RMul(f.m[<<c[1], i>>], f.m[<<i, c[2]>>]))
        ELSE f.m[c]])]

\* the loop of lu_factorize from column i on: each pass finds the pivot
\* row k of column i and takes the one branch or the other on m(k, i) != 0
RECURSIVE LuFrom(_, _, _)
LuFrom(f, n, i) ==
    IF i >= n THEN f
    ELSE IF ~REq(f.m[<<PivotRow(f.m, n, i), i>>], RZero)
         THEN LuFrom(Eliminate(ScaleColumn(f, n, i, PivotRow(f.m, n, i)), n, i),
                     n, i + 1)
         ELSE LuFrom(Eliminate(NoteSingular(f, i), n, i), n, i + 1)

\* ublas::lu_factorize(m, P) with P the identity permutation
lu_factorize(m, n) ==
    LuFrom([m |-> m, pm |-> [i \in 0..(n - 1) |-> i], singular |-> 0], n, 0)

\* swap_rows(pm, b)
RECURSIVE SwapFrom(_, _, _, _)
SwapFrom(b, pm, n, i) ==
    IF i >= n THEN b
    ELSE SwapFrom([b EXCEPT ![i] = b[pm[i]], ![pm[i]] = b[i]], pm, n, i + 1)

\* inplace_solve(m, b, unit_lower_tag), columns i..n-1: t = b(i); when
\* t != 0, b(r) -= m(r, i) * t for the rows r below i
RECURSIVE LowerFrom(_, _, _, _)
LowerFrom(m, b, n, i) ==
    IF i >= n THEN b
    ELSE IF REq(b[i], RZero) THEN LowerFrom(m, b, n, i + 1)
    ELSE LowerFrom(m,
            Stored([r \in 0..(n - 1) |->
                IF r > i THEN RSub(b[r], RMul(m[<<r, i>>], b[i])) ELSE b[r]]),
            n, i + 1)

\* inplace_solve(m, b, upper_tag), columns i down to 0: t = (b(i) /= m(i, i));
\* when t != 0, b(r) -= m(r, i) * t for the rows r above i
RECURSIVE UpperFrom(_, _, _, _)
UpperFrom(m, b, n, i) ==
    IF i < 0 THEN b
    ELSE LET t == RDiv(b[i], m[<<i, i>>])
         IN  IF REq(t, RZero)
             THEN UpperFrom(m,
                    Stored([r \in 0..(n - 1) |-> IF r = i THEN t ELSE b[r]]),
                    n, i - 1)
             ELSE UpperFrom(m,
                    Stored([r \in 0..(n - 1) |->
                        IF r = i THEN t
                        ELSE IF r < i THEN RSub(b[r], RMul(m[<<r, i>>], t))
                        ELSE b[r]]),
                    n, i - 1)

\* ublas::lu_substitute(m, P, b)
lu_substitute(f, b, n) ==
    UpperFrom(f.m, LowerFrom(f.m, SwapFrom(b, f.pm, n, 0), n, 0), n, n - 1)

\* the main matrix with the two statements in the other order
MainMatrixSwapped(t_mat, discount, n) ==
    Stored([c \in Cells(n) |->
        RMul(RAdd(t_mat[c], IdentityMatrix(n)[c]), RNeg(discount))])

\* the main matrix of ofreq_mat: (*t_mat) *= -discount; (*t_mat) += identity
MainMatrix(t_mat, discount, n) ==
    Stored([c \in Cells(n) |->
        RAdd(RMul(t_mat[c], RNeg(discount)), IdentityMatrix(n)[c])])

Ok(v) == [status |-> "ok", value |-> v]
Failed(why) == [status |-> "error", value |-> why]

\* GRMDP::ofreq_mat.  The value lu_factorize returns is not looked at.  On a
\* zero on the diagonal of the factor, a build with the checks of ublas
\* (checks = "on") ends the call in inplace_solve with the exception
\* singular; a build without them divides by that zero and goes on.
ofreq_mat(tab, init, discount, policy, nature, checks) ==
    LET n == state_count(tab)
        initial_vec == Stored(probabilities_vector(init, n))
        t_mat == Stored(transition_mat_t(tab, policy, nature))
        f == lu_factorize(MainMatrix(t_mat, discount, n), n)
    IN  IF (\E i \in 0..(n - 1) : REq(f.m[<<i, i>>], RZero)) /\ checks = "on"
        THEN Failed("singular")
        ELSE Ok(lu_substitute(f, initial_vec, n))

----------------------------------------------------------------------------
\* Which states a query passes its policy entries to

\* the state ids that is_policy_correct hands policy[si], natpolicy[si] to:
\* the non-terminal ones, up to the one it returns
PolicyResolved(tab, policy, natpolicy) ==
    LET r == is_policy_correct(tab, policy, natpolicy)
    IN  {si \in StateIds(tab) :
            ~is_terminal(tab[si + 1]) /\ (r = -1 \/ si <= r)}

\* the sets of state ids that transition_mat may have called mean_transition
\* on: every id when the call returns; when the program ends in the call on
\* a terminal state, that state and whichever iterations of the parallel
\* loop made their call before
ForwardResolved(tab, undef) ==
    IF transition_mat_crashes(tab, undef)
    THEN {r \in SUBSET StateIds(tab) :
             \E s \in r \cap TerminalIds(tab) : undef[s].kind = "crash"}
    ELSE {StateIds(tab)}

\* the state ids that transition_mat_t calls mean_transition on
TransposedResolved(tab) == {s \in StateIds(tab) : TransposedWrites(tab, s)}

\* the state ids that rewards_state calls mean_reward on
RewardResolved(tab) == {s \in StateIds(tab) : ~is_terminal(tab[s + 1])}

----------------------------------------------------------------------------
\* The tables and arguments the model draws from

Half == Rat(1, 2)

\* a terminal state
ShapeT == DefaultState
\* one action, one outcome: to state 0 with probability 1 and reward 1
ShapeA == << <<Single(0, ROne, ROne)>> >>
\* action 0: no outcomes; action 1: an outcome of weights 1 and 3 and a
\* normalized one
ShapeB == << <<>>,
             <<Pair(0, ROne, ROne, 1, RInt(3), RZero),
               Pair(0, Half, RInt(4), 1, Half, RZero)>> >>
\* one action whose outcome has total weight zero
ShapeC == << <<Single(0, RZero, ROne)>> >>

\* the three-state, two-action example of the documentation
P6Table ==
    << << <<Single(0, ROne, RZero)>>, <<Single(1, ROne, RZero)>> >>,
       << <<Single(0, ROne, ROne)>>, <<Single(2, ROne, RZero)>> >>,
       << <<Single(1, ROne, ROne)>>, <<Single(2, ROne, Rat(11, 10))>> >> >>

\* every target id of every outcome names a state of the table
TargetsInRange(tab) ==
    \A p \in Positions(tab) :
        \A j \in 1..TSize(tab[p[1]][p[2]][p[3]]) :
            tab[p[1]][p[2]][p[3]].indices[j] < Len(tab)

\* the tables of at most MaxInitStates states, each state one of shapes
TablesOf(shapes) ==
    {tab \in UNION {[1..k -> shapes] : k \in 0..MaxInitStates} : TargetsInRange(tab)}

\* the (action id, outcome id) choices a policy pair makes at one state
Choices == {<<0, 0>>, <<1, 0>>, <<1, 1>>, <<5, 0>>}

\* the policy pairs for a table: one choice per state
PolicyPairs(tab) == [1..Len(tab) -> Choices]
ActionPolicy(pp) == [i \in DOMAIN pp |-> pp[i][1]]
OutcomePolicy(pp) == [i \in DOMAIN pp |-> pp[i][2]]

Discounts == {RZero, Half, ROne}

\* initial distributions over the states of a table of n states
InitDistributions(n) ==
    IF n = 0 THEN {EmptyTransition}
    ELSE IF n = 1 THEN {Single(0, Half, RZero)}
    ELSE {Pair(0, Half, RZero, n - 1, RInt(2), RZero)}

GetStateOps == {"get_state const", "operator[] const", "get_state", "operator[]"}

QueryOps ==
    {"is_normalized", "is_policy_correct", "transition_mat", "transition_mat_t",
     "rewards_state", "ofreq_mat"}

NoArgs ==
    [id |-> 0, policy |-> <<>>, nature |-> <<>>,
     init |-> EmptyTransition, discount |-> RZero]

Call(op, args) == [op |-> op, args |-> args]

PolicyArgs(policy, nature) == [NoArgs EXCEPT !.policy = policy, !.nature = nature]

Idle == [op |-> "idle", policy |-> <<>>, nature |-> <<>>]

----------------------------------------------------------------------------
\* The operations, each as one atomic step

NoSweep == UNCHANGED <<sweep, wpc, wt, out, wrote>>

\* the caller is between calls: it has taken the last result
\* the program has ended: in a failed assertion, or in the undefined call
ProgramEnded ==
    result.status = "error" /\ result.value \in {"assert", "undefined"}

Ready == call.op \in {"GRMDP", "return"}

InitWith(tables, builds) ==
    /\ states \in tables
    /\ build \in builds
    /\ call = Call("GRMDP", NoArgs)
    /\ old = states
    /\ result = Ok(<<>>)
    /\ sweep = Idle
    /\ wpc = <<>>
    /\ wt = <<>>
    /\ out = <<>>
    /\ wrote = <<>>
    /\ resolved = {}

\* create_state(stateid)
CreateState(stateid) ==
    /\ call' = Call("create_state", [NoArgs EXCEPT !.id = stateid])
    /\ old' = states
    /\ IF build.assertions = "on" /\ ~create_state_assert(states, stateid)
       THEN /\ states' = states
            /\ result' = Failed("assert")
       ELSE /\ states' = create_state(states, stateid)
            /\ result' = Ok(stateid)
    /\ UNCHANGED build
    /\ resolved' = {}
    /\ NoSweep

\* create_state(), on a table of fewer than maxCount states
CreateStateEnd(maxCount) ==
    /\ state_count(states) < maxCount
    /\ call' = Call("create_state()", NoArgs)
    /\ old' = states
    /\ states' = create_state(states, state_count(states))
    /\ result' = Ok(state_count(states))
    /\ UNCHANGED build
    /\ resolved' = {}
    /\ NoSweep

\* get_state(stateid) and operator[](stateid), const and mutable
GetState(op, stateid) ==
    /\ call' = Call(op, [NoArgs EXCEPT !.id = stateid])
    /\ old' = states
    /\ result' = IF build.assertions = "on" /\ ~get_state_assert(states, stateid)
                 THEN Failed("assert")
                 ELSE Ok(get_state(states, stateid))
    /\ UNCHANGED <<states, build>>
    /\ resolved' = {}
    /\ NoSweep

\* normalize()
Normalize ==
    /\ call' = Call("normalize", NoArgs)
    /\ old' = states
    /\ states' = normalize(states, build.zeroWeight)
    /\ result' = IF normalize_fails(states, build.zeroWeight)
                 THEN Failed("zero weight") ELSE Ok(<<>>)
    /\ UNCHANGED build
    /\ resolved' = {}
    /\ NoSweep

\* is_normalized()
IsNormalized ==
    /\ call' = Call("is_normalized", NoArgs)
    /\ old' = states
    /\ result' = Ok(is_normalized(states))
    /\ UNCHANGED <<states, build>>
    /\ resolved' = {}
    /\ NoSweep

\* is_policy_correct(policy, natpolicy)
IsPolicyCorrect(policy, nature) ==
    /\ call' = Call("is_policy_correct", PolicyArgs(policy, nature))
    /\ old' = states
    /\ result' = Ok(is_policy_correct(states, policy, nature))
    /\ UNCHANGED <<states, build>>
    /\ resolved' = PolicyResolved(states, policy, nature)
    /\ NoSweep

\* The matrix, occupancy and reward routines assume a policy pair that
\* is_policy_correct accepts; callers hand them no other.
Validated(policy, nature) == is_policy_correct(states, policy, nature) = -1

\* transition_mat(policy, nature)
TransitionMat(policy, nature) ==
    /\ Validated(policy, nature)
    /\ call' = Call("transition_mat", PolicyArgs(policy, nature))
    /\ old' = states
    /\ \E undef \in UndefinedCalls(states) :
          /\ result' = IF transition_mat_crashes(states, undef)
                       THEN Failed("undefined")
                       ELSE Ok(transition_mat(states, policy, nature, undef))
          /\ resolved' \in ForwardResolved(states, undef)
    /\ UNCHANGED <<states, build>>
    /\ NoSweep

\* transition_mat_t(policy, nature)
TransitionMatT(policy, nature) ==
    /\ Validated(policy, nature)
    /\ call' = Call("transition_mat_t", PolicyArgs(policy, nature))
    /\ old' = states
    /\ result' = Ok(transition_mat_t(states, policy, nature))
    /\ UNCHANGED <<states, build>>
    /\ resolved' = TransposedResolved(states)
    /\ NoSweep

\* rewards_state(policy, nature)
RewardsState(policy, nature) ==
    /\ Validated(policy, nature)
    /\ call' = Call("rewards_state", PolicyArgs(policy, nature))
    /\ old' = states
    /\ result' = Ok(rewards_state(states, policy, nature))
    /\ UNCHANGED <<states, build>>
    /\ resolved' = RewardResolved(states)
    /\ NoSweep

\* ofreq_mat(init, discount, policy, nature)
OfreqMat(init, discount, policy, nature) ==
    /\ Validated(policy, nature)
    /\ call' = Call("ofreq_mat",
                    [PolicyArgs(policy, nature) EXCEPT !.init = init, !.discount = discount])
    /\ old' = states
    /\ result' = ofreq_mat(states, init, discount, policy, nature,
                            build.assertions)
    /\ UNCHANGED <<states, build>>
    /\ resolved' = TransposedResolved(states)
    /\ NoSweep

\* the caller takes the result
Return ==
    /\ ~Ready
    /\ ~ProgramEnded
    /\ sweep = Idle
    /\ call' = Call("return", NoArgs)
    /\ old' = states
    /\ result' = Ok(<<>>)
    /\ wpc' = <<>>
    /\ wt' = <<>>
    /\ out' = <<>>
    /\ wrote' = <<>>
    /\ resolved' = {}
    /\ UNCHANGED <<states, build, sweep>>

----------------------------------------------------------------------------
\* Spec: the query operations on tables that grow between the calls

Init ==
    InitWith(TablesOf({ShapeT, ShapeA, ShapeB}) \cup {P6Table},
             [zeroWeight : {"skip"}, assertions : {"on", "off"}])

\* a call with arguments drawn afresh
NewCall ==
    /\ Ready
    /\ \/ CreateStateEnd(MaxInitStates)
       \/ IsNormalized
       \/ \E pp \in PolicyPairs(states) :
             LET policy == ActionPolicy(pp)
                 nature == OutcomePolicy(pp)
             IN
             \/ IsPolicyCorrect(policy, nature)
             \/ TransitionMat(policy, nature)
             \/ TransitionMatT(policy, nature)
             \/ RewardsState(policy, nature)
             \/ \E init \in InitDistributions(state_count(states)) :
                   \E discount \in Discounts :
                       OfreqMat(init, discount, policy, nature)

\* the query just made, made once more with the same arguments
SameCall ==
    LET a == call.args IN
    /\ ~ProgramEnded
    /\ \/ call.op = "is_normalized" /\ IsNormalized
       \/ call.op = "is_policy_correct" /\ IsPolicyCorrect(a.policy, a.nature)
       \/ call.op = "transition_mat" /\ TransitionMat(a.policy, a.nature)
       \/ call.op = "transition_mat_t" /\ TransitionMatT(a.policy, a.nature)
       \/ call.op = "rewards_state" /\ RewardsState(a.policy, a.nature)
       \/ call.op = "ofreq_mat" /\ OfreqMat(a.init, a.discount, a.policy, a.nature)

Next ==
    \/ NewCall
    \/ SameCall
    \/ Return

Spec == Init /\ [][Next]_vars

----------------------------------------------------------------------------
\* SpecTable: the operations of the table itself

InitTable ==
    InitWith(TablesOf({ShapeT, ShapeA, ShapeB, ShapeC}) \cup {P6Table},
             [zeroWeight : {"skip", "fail"}, assertions : {"on", "off"}])

NewTableCall ==
    /\ Ready
    /\ \/ \E stateid \in (-1)..MaxStateId : CreateState(stateid)
       \/ CreateStateEnd(MaxStateId + 1)
       \/ \E op \in GetStateOps : \E stateid \in (-1)..(MaxStateId + 1) :
             GetState(op, stateid)
       \/ Normalize
       \/ IsNormalized

SameTableCall ==
    /\ ~ProgramEnded
    /\ \/ call.op = "create_state" /\ CreateState(call.args.id)
       \/ call.op = "create_state()" /\ CreateStateEnd(MaxStateId + 1)
       \/ call.op \in GetStateOps /\ GetState(call.op, call.args.id)
       \/ call.op = "normalize" /\ Normalize
       \/ call.op = "is_normalized" /\ IsNormalized

NextTable ==
    \/ NewTableCall
    \/ SameTableCall
    \/ Return

SpecTable == InitTable /\ [][NextTable]_vars

----------------------------------------------------------------------------
\* SpecSweep: the parallel loops of transition_mat, transition_mat_t and
\* rewards_state, one worker per state id, their steps interleaved

SweepOps == {"transition_mat", "transition_mat_t", "rewards_state"}

AtStart == [at |-> "start", j |-> 0]
AtDone == [at |-> "done", j |-> 0]
\* in a call of mean_transition that does not come back
AtCall == [at |-> "call", j |-> 0]
AtWrite(j) == [at |-> "write", j |-> j]

\* where a worker stands once it has written entry j of its Transition t
AfterEntry(t, j) == IF j + 1 > TSize(t) THEN AtDone ELSE AtWrite(j + 1)

InitSweep ==
    InitWith(TablesOf({ShapeT, ShapeB}) \cup {P6Table},
             [zeroWeight : {"skip"}, assertions : {"on", "off"}])

\* the caller enters op: the output is allocated and zeroed, the loop begins
BeginSweep(op, policy, nature) ==
    /\ Ready
    /\ sweep = Idle
    /\ Validated(policy, nature)
    /\ call' = Call(op, PolicyArgs(policy, nature))
    /\ old' = states
    /\ result' = Ok(<<>>)
    /\ sweep' = [op |-> op, policy |-> policy, nature |-> nature]
    /\ wpc' = [s \in StateIds(states) |-> AtStart]
    /\ wt' = [s \in StateIds(states) |-> EmptyTransition]
    /\ out' = IF op = "rewards_state" THEN ZeroVector(state_count(states))
              ELSE ZeroMatrix(state_count(states))
    /\ wrote' = [c \in DOMAIN out' |-> {}]
    /\ resolved' = {}
    /\ UNCHANGED <<states, build>>

\* iteration s of transition_mat calls mean_transition: the call hands the
\* worker its Transition, or, on a terminal state, does one of the things
\* the undefined call may do: when that is to end the program, the call does
\* not come back, and the other workers run on meanwhile
ForwardResolveStep(s) ==
    /\ sweep.op = "transition_mat"
    /\ wpc[s] = AtStart
    /\ \E u \in UndefinedResolves(Len(states)) :
          IF is_terminal(states[s + 1]) /\ u.kind = "crash"
          THEN /\ wpc' = [wpc EXCEPT ![s] = AtCall]
               /\ wt' = wt
          ELSE LET t == ForwardResolve(states, sweep.policy, sweep.nature,
                                       [i \in TerminalIds(states) |-> u], s)
               IN  /\ wt' = [wt EXCEPT ![s] = t]
                   /\ wpc' = [wpc EXCEPT ![s] = AfterEntry(t, 0)]
    /\ resolved' = resolved \cup {s}
    /\ UNCHANGED <<states, build, call, old, result, sweep, out, wrote>>

\* the undefined call that iteration s of transition_mat is in ends the
\* program, whatever the other workers have done by then
ForwardCrashStep(s) ==
    /\ sweep.op = "transition_mat"
    /\ wpc[s] = AtCall
    /\ sweep' = [sweep EXCEPT !.op = "crashed"]
    /\ result' = Failed("undefined")
    /\ resolved' = resolved
    /\ UNCHANGED <<states, build, call, old, wpc, wt, out, wrote>>

\* iteration s of transition_mat writes one entry
ForwardWriteStep(s) ==
    /\ sweep.op = "transition_mat"
    /\ wpc[s].at = "write"
    /\ LET j == wpc[s].j
           cell == ForwardCell(s, wt[s], j)
       IN  /\ out' = [out EXCEPT ![cell] = wt[s].probabilities[j]]
           /\ wrote' = [wrote EXCEPT ![cell] = @ \cup {s}]
           /\ wpc' = [wpc EXCEPT ![s] = AfterEntry(wt[s], j)]
    /\ resolved' = resolved
    /\ UNCHANGED <<states, build, call, old, result, sweep, wt>>

\* iteration s of transition_mat_t: a terminal state is passed over,
\* any other resolves its Transition
TransposedResolveStep(s) ==
    /\ sweep.op = "transition_mat_t"
    /\ wpc[s] = AtStart
    /\ IF ~TransposedWrites(states, s)
       THEN /\ wpc' = [wpc EXCEPT ![s] = AtDone]
            /\ wt' = wt
       ELSE LET t == mean_transition(states[s + 1], sweep.policy[s + 1],
                                     sweep.nature[s + 1])
            IN  /\ wt' = [wt EXCEPT ![s] = t]
                /\ wpc' = [wpc EXCEPT ![s] = AfterEntry(t, 0)]
    /\ resolved' = IF TransposedWrites(states, s) THEN resolved \cup {s}
                    ELSE resolved
    /\ UNCHANGED <<states, build, call, old, result, sweep, out, wrote>>

\* iteration s of transition_mat_t writes one entry
TransposedWriteStep(s) ==
    /\ sweep.op = "transition_mat_t"
    /\ wpc[s].at = "write"
    /\ LET j == wpc[s].j
           cell == TransposedCell(s, wt[s], j)
       IN  /\ out' = [out EXCEPT ![cell] = wt[s].probabilities[j]]
           /\ wrote' = [wrote EXCEPT ![cell] = @ \cup {s}]
           /\ wpc' = [wpc EXCEPT ![s] = AfterEntry(wt[s], j)]
    /\ resolved' = resolved
    /\ UNCHANGED <<states, build, call, old, result, sweep, wt>>

\* iteration s of rewards_state
RewardStep(s) ==
    /\ sweep.op = "rewards_state"
    /\ wpc[s] = AtStart
    /\ out' = [out EXCEPT ![RewardCell(s)] =
                  RewardEntry(states, sweep.policy, sweep.nature, s)]
    /\ wrote' = [wrote EXCEPT ![RewardCell(s)] = @ \cup {s}]
    /\ wpc' = [wpc EXCEPT ![s] = AtDone]
    /\ resolved' = IF is_terminal(states[s + 1]) THEN resolved
                    ELSE resolved \cup {s}
    /\ UNCHANGED <<states, build, call, old, result, sweep, wt>>

\* the end of the parallel loop: have all iterations finished
Joined == \A s \in DOMAIN wpc : wpc[s] = AtDone

\* the loop is over and the output is returned
EndSweep ==
    /\ sweep.op \in SweepOps
    /\ Joined
    /\ result' = Ok(out)
    /\ sweep' = Idle
    /\ resolved' = resolved
    /\ UNCHANGED <<states, build, call, old, wpc, wt, out, wrote>>

NextSweep ==
    \/ \E op \in SweepOps : \E pp \in PolicyPairs(states) :
          BeginSweep(op, ActionPolicy(pp), OutcomePolicy(pp))
    \/ \E s \in DOMAIN wpc : ForwardResolveStep(s)
    \/ \E s \in DOMAIN wpc : ForwardCrashStep(s)
    \/ \E s \in DOMAIN wpc : ForwardWriteStep(s)
    \/ \E s \in DOMAIN wpc : TransposedResolveStep(s)
    \/ \E s \in DOMAIN wpc : TransposedWriteStep(s)
    \/ \E s \in DOMAIN wpc : RewardStep(s)
    \/ EndSweep
    \/ Return

SpecSweep == InitSweep /\ [][NextSweep]_vars

----------------------------------------------------------------------------
\* Properties

Max(a, b) == IF a >= b THEN a ELSE b
MinOf(S) == CHOOSE x \in S : \A y \in S : x <= y

\* C1: create_state(id) with id >= 0 leaves max(old count, id + 1) states,
\* every state that existed unchanged and every new slot, gap slots included,
\* a terminal state with no actions; create_state() does what
\* create_state(state_count()) does and adds exactly one state.
C1_CreateStateExtends ==
    /\ (call.op = "create_state" /\ call.args.id >= 0) =>
          /\ state_count(states) = Max(state_count(old), call.args.id + 1)
          /\ \A i \in 1..Len(old) : states[i] = old[i]
          /\ \A i \in (Len(old) + 1)..Len(states) :
                is_terminal(states[i]) /\ Len(states[i]) = 0
    /\ call.op = "create_state()" =>
          /\ state_count(states) = state_count(old) + 1
          /\ \A i \in 1..Len(old) : states[i] = old[i]
          /\ Len(states[Len(states)]) = 0
          /\ states = create_state(old, state_count(old))

\* create_state(2) was called on a one-state table whose state has actions:
\* slot 1 is a gap slot, slot 2 the one asked for
C1_Witness ==
    /\ call.op = "create_state"
    /\ call.args.id = 2
    /\ Len(old) = 1
    /\ ~is_terminal(old[1])
    /\ Len(states) = 3

\* is the pair (aid, oid) an existing action of st and an existing outcome of it
ValidPair(st, aid, oid) ==
    /\ aid \in 0..(Len(st) - 1)
    /\ oid \in 0..(Len(st[aid + 1]) - 1)

\* the non-terminal states at which the policy pair is not valid
Violating(tab, policy, nature) ==
    {s \in StateIds(tab) :
        /\ Len(tab[s + 1]) > 0
        /\ ~ValidPair(tab[s + 1], policy[s + 1], nature[s + 1])}

\* C2: is_policy_correct returns the smallest non-terminal state id whose
\* (policy, nature) entry is not an existing action and outcome, and -1 iff
\* there is none; the entries of terminal states do not matter; on the
\* documentation's example [0,0,0] / [0,0,0] gives -1 and [5,0,0] gives 0.
C2_FirstViolation ==
    call.op = "is_policy_correct" =>
        LET policy == call.args.policy
            nature == call.args.nature
            bad == Violating(states, policy, nature)
        IN  /\ result.value = (IF bad = {} THEN -1 ELSE MinOf(bad))
            /\ (result.value = -1) <=> (bad = {})
            /\ \A pp \in PolicyPairs(states) :
                  (\A s \in StateIds(states) \ TerminalIds(states) :
                        pp[s + 1] = <<policy[s + 1], nature[s + 1]>>)
                  => is_policy_correct(states, ActionPolicy(pp), OutcomePolicy(pp))
                        = result.value
            /\ (states = P6Table /\ nature = <<0, 0, 0>>) =>
                  /\ policy = <<0, 0, 0>> => result.value = -1
                  /\ policy = <<5, 0, 0>> => result.value = 0

\* state 0 is terminal and carries an action id no state has; state 1 is the
\* first state whose entry is wrong
C2_Witness ==
    /\ call.op = "is_policy_correct"
    /\ Len(states) >= 2
    /\ is_terminal(states[1])
    /\ call.args.policy[1] = 5
    /\ result.value = 1

\* C3: every row s of the matrix transition_mat returns sums to the total
\* probability of the distribution resolved for s when s has actions, and is
\* all zeros when s is terminal.
C3_RowSums ==
    call.op = "transition_mat" =>
        /\ result.status = "ok"
        /\ \A s \in StateIds(states) :
              IF is_terminal(states[s + 1])
              THEN \A j \in StateIds(states) : REq(result.value[<<s, j>>], RZero)
              ELSE REq(RowSum(result.value, Len(states), s),
                       sum_probabilities(mean_transition(states[s + 1],
                           call.args.policy[s + 1], call.args.nature[s + 1])))

\* C4: the matrix transition_mat returns is the transpose of the one
\* transition_mat_t returns for the same policy pair, terminal states or not.
C4_Transpose ==
    call.op = "transition_mat" =>
        /\ result.status = "ok"
        /\ \A c \in Cells(Len(states)) :
              REq(result.value[c],
                  transition_mat_t(states, call.args.policy,
                                   call.args.nature)[<<c[2], c[1]>>])

\* the probability an initial distribution gives to state id i
InitMass(init, i) ==
    IF \E j \in 1..Len(init.indices) : init.indices[j] = i
    THEN init.probabilities[CHOOSE j \in 1..Len(init.indices) : init.indices[j] = i]
    ELSE RZero

\* C5: with discount 0, ofreq_mat returns the initial distribution, entry for
\* entry, as a vector over all states.
C5_DiscountZero ==
    (call.op = "ofreq_mat" /\ REq(call.args.discount, RZero)) =>
        /\ result.status = "ok"
        /\ DOMAIN result.value = StateIds(states)
        /\ \A i \in StateIds(states) :
              REq(result.value[i], InitMass(call.args.init, i))

\* ofreq_mat ran with discount 0 on a table with a state that has actions,
\* from an initial distribution over two states
C5_Witness ==
    /\ call.op = "ofreq_mat"
    /\ REq(call.args.discount, RZero)
    /\ Len(call.args.init.indices) = 2
    /\ \E s \in StateIds(states) : ~is_terminal(states[s + 1])
    /\ result.status = "ok"

\* C6: rewards_state returns one entry per state: 0 for a terminal state,
\* otherwise the mean reward of the outcome chosen by (policy[s], nature[s]);
\* one terminal state gives [0], one state looping to itself with
\* probability 1 and reward r gives [r].
C6_Rewards ==
    call.op = "rewards_state" =>
        /\ DOMAIN result.value = StateIds(states)
        /\ \A s \in StateIds(states) :
              REq(result.value[s],
                  IF Len(states[s + 1]) = 0 THEN RZero
                  ELSE TransitionMeanReward(
                          states[s + 1][call.args.policy[s + 1] + 1][call.args.nature[s + 1] + 1]))
        /\ states = <<ShapeT>> => REq(result.value[0], RZero)
        /\ states = <<ShapeA>> => REq(result.value[0], ROne)

\* rewards_state ran on a table with a terminal state and a state whose
\* chosen outcome is not outcome 0 and has a non-zero mean reward
C6_Witness ==
    /\ call.op = "rewards_state"
    /\ \E s \in StateIds(states) : is_terminal(states[s + 1])
    /\ \E s \in StateIds(states) :
          /\ ~is_terminal(states[s + 1])
          /\ call.args.nature[s + 1] = 1
          /\ ~REq(result.value[s], RZero)

BadId ==
    \/ /\ call.op \in GetStateOps
       /\ (call.args.id < 0 \/ call.args.id >= state_count(old))
    \/ /\ call.op = "create_state"
       /\ call.args.id < 0

\* C8, as amended: in a build that keeps assertions (NDEBUG not defined),
\* get_state and operator[] with an id outside 0..state_count()-1, and
\* create_state with a negative id, fail at once: nothing is returned and
\* the table, its size included, is as before; in a build without them the
\* table is as before all the same.
C8_CheckedPreconditions ==
    BadId =>
        /\ states = old
        /\ build.assertions = "on" => result.status = "error"

\* in a build that keeps assertions, get_state was called with the id one
\* past the last state of a table that has states
C8_Witness ==
    /\ call.op = "get_state"
    /\ build.assertions = "on"
    /\ Len(old) >= 1
    /\ call.args.id = Len(old)
    /\ result.status = "error"

\* C8: get_state and operator[] with an id outside 0..state_count()-1, and
\* create_state with a negative id, fail at once: nothing is returned and the
\* table, its size included, is as before.
C8_Preconditions ==
    BadId =>
        /\ result.status = "error"
        /\ states = old

\* the same outcome: both calls failed, or both returned the same value
SameResult(r1, r2) ==
    /\ r1.status = r2.status
    /\ r1.status = "ok" => r1.value = r2.value

\* C9: a query leaves the table as it is, and made once more with the same
\* arguments on the same table it returns what it returned before, a failed
\* ofreq_mat included.
C9_QueriesArePure ==
    [][/\ call'.op \in QueryOps => states' = states
       /\ (call.op \in QueryOps /\ call' = call /\ states' = states)
             => SameResult(result, result')]_vars

\* C10: in the parallel loops a worker writes only the slots of its own
\* state (row s, column s, entry s), so no cell has two writers; the table
\* is not written; what is returned is what the loop run in order returns,
\* and it is returned only when every worker has finished.
C10_DisjointSlots ==
    /\ sweep.op = "transition_mat" =>
          \A c \in DOMAIN wrote : \A w \in wrote[c] : c[1] = w
    /\ sweep.op = "transition_mat_t" =>
          \A c \in DOMAIN wrote : \A w \in wrote[c] : c[2] = w
    /\ sweep.op = "rewards_state" =>
          \A c \in DOMAIN wrote : \A w \in wrote[c] : c = w
    /\ \A c \in DOMAIN wrote : Cardinality(wrote[c]) <= 1
    /\ call.op \in SweepOps => states = old
    /\ (call.op \in SweepOps /\ sweep = Idle) =>
          /\ \A s \in DOMAIN wpc : wpc[s] = AtDone
          /\ result.status = "ok"
          /\ call.op = "transition_mat" =>
                result.value = transition_mat(states, call.args.policy,
                                   call.args.nature,
                                   [s \in TerminalIds(states) |-> Value(wt[s])])
          /\ call.op = "transition_mat_t" =>
                result.value = transition_mat_t(states, call.args.policy,
                                   call.args.nature)
          /\ call.op = "rewards_state" =>
                result.value = rewards_state(states, call.args.policy,
                                   call.args.nature)

\* transition_mat_t has returned after two workers wrote cells
C10_Witness ==
    /\ call.op = "transition_mat_t"
    /\ sweep = Idle
    /\ result.status = "ok"
    /\ \E c1, c2 \in DOMAIN wrote :
          /\ wrote[c1] # {}
          /\ wrote[c2] # {}
          /\ wrote[c1] # wrote[c2]

\* the queries that take a policy pair
CoreQueries ==
    {"transition_mat", "transition_mat_t", "ofreq_mat", "rewards_state",
     "is_policy_correct"}

\* C11: no core query (transition_mat, transition_mat_t, ofreq_mat,
\* rewards_state, is_policy_correct) resolves a mean transition, a mean
\* reward or an action/outcome validity check on a terminal state: policy[s]
\* and nature[s] of a terminal state s are never passed to the state.
C11_NoTerminalResolve ==
    call.op \in CoreQueries =>
        \A s \in resolved : ~is_terminal(states[s + 1])

====
